---- MODULE Spec2Model ----
(***************************************************************************)
(* Model of gkr-protocol/src/circuit_builder.rs: the declarative           *)
(* CircuitBuilder.  build_circuit sorts the caller's cells by              *)
(* (layer_id, index), walks them once counting the cells of each layer,    *)
(* compares the counts with the declared input and output counts, and      *)
(* projects the layers n_layer-1 .. 1 into the gates of a Circuit.  Every  *)
(* panic! of the code, and every panic of a Vec index out of bounds the    *)
(* code can run into, is an outcome of the model.                          *)
(*                                                                         *)
(* Vectors are 0-based in the code and 1-based here: v[k] of the code is   *)
(* v[k+1] of the model, positions (ind, j, la, layer_end) keep the code's  *)
(* 0-based values.                                                         *)
(***************************************************************************)
EXTENDS Integers, Sequences, FiniteSets, TLC

\* ---------------------------------------------------------------- bounds
\* longest vector of cells handed to CircuitBuilder::new
MaxCells == 3
\* largest layer_id of a cell
MaxLayerId == 2
\* largest index of a cell
MaxIndex == 1
\* largest operand of an Add or a Mul cell
MaxOperand == 1
\* largest declared n_input and n_output
MaxDeclared == 2

\* ------------------------------------------------------------ data types
\* enum CellGateType { Add(usize, usize), Mul(usize, usize), Witness }
\* (a Witness carries no operands: l and r are 0 and never read)
Witness == [kind |-> "Witness", l |-> 0, r |-> 0]

Add(l, r) == [kind |-> "Add", l |-> l, r |-> r]

Mul(l, r) == [kind |-> "Mul", l |-> l, r |-> r]

CellGateType ==
  {Witness} \cup {Add(l, r) : l \in 0..MaxOperand, r \in 0..MaxOperand}
            \cup {Mul(l, r) : l \in 0..MaxOperand, r \in 0..MaxOperand}

\* struct Cell { index, layer_id, gate_type }
Cell == [index : 0..MaxIndex, layer_id : 0..MaxLayerId, gate_type : CellGateType]

\* Gate::new(GateType::Add | GateType::Mul, [l, r])
Gate(kind, l, r) == [kind |-> kind, inputs |-> <<l, r>>]

\* Circuit::new(layers, num_inputs): build_circuit returned
Circuit(layers, num_inputs) ==
  [tag |-> "circuit", msg |-> "", at |-> -1, layers |-> layers, num_inputs |-> num_inputs]

\* panic!(msg) or panic!(msg_{at}): build_circuit unwound; at is the layer
\* the message names, -1 when it names none
Panic(msg, at) ==
  [tag |-> "panic", msg |-> msg, at |-> at, layers |-> <<>>, num_inputs |-> 0]

\* the panic messages of build_circuit
MsgNotConsecutive == "cell index is not consecutive"

MsgNoCell == "have no cell in layer_"

MsgWrongNumber == "wrong number with input or output"

MsgWitness == "exist witness cell in layer_"

MsgNotEnough == "no enough cell in layer_"

\* the panics of the language: a Vec index out of bounds, an overflowing
\* usize subtraction (debug build)
MsgIndexOutOfBounds == "index out of bounds"

MsgSubtractOverflow == "attempt to subtract with overflow"

\* no outcome yet
NoResult == [tag |-> "none", msg |-> "", at |-> -1, layers |-> <<>>, num_inputs |-> 0]

\* ------------------------------------------------------------------ sort
\* a comparator that forgets the index
CellLessByLayer(a, b) == a.layer_id < b.layer_id

\* the comparator of cells.sort_by: a.layer_id.cmp(b.layer_id).then(a.index.cmp(b.index))
CellLess(a, b) ==
  \/ a.layer_id < b.layer_id
  \/ a.layer_id = b.layer_id /\ a.index < b.index

\* slice::sort_by is a stable sort: the cell at position j of v comes before the
\* one at position k when it compares less, or compares equal and stood before it
ComesBefore(v, j, k) ==
  \/ CellLess(v[j], v[k])
  \/ ~CellLess(v[k], v[j]) /\ j < k

\* the position (1-based) the sort gives the cell at position k of v
SortedPosition(v, k) == 1 + Cardinality({j \in 1..Len(v) : j # k /\ ComesBefore(v, j, k)})

\* cells.sort_by(...): the stable sort of the vector by (layer_id, index)
SortCells(v) ==
  [p \in 1..Len(v) |-> v[CHOOSE k \in 1..Len(v) : SortedPosition(v, k) = p]]

\* ------------------------------------------------------- validation walk
\* the walk's outcome when the loop and the check after it pass
Walked(layer_count, layer) ==
  [tag |-> "walked", msg |-> "", at |-> -1, layer_count |-> layer_count, layer |-> layer]

WalkPanic(msg, at) ==
  [tag |-> "panic", msg |-> msg, at |-> at, layer_count |-> <<>>, layer |-> 0]

\* an index check that lets a repeated index through
IndexBeyondCount(cell, count) == cell.index > count

\* line 40: if cell.index != count
IndexNotConsecutive(cell, count) == cell.index # count

RECURSIVE Walk(_, _, _, _, _)
\* while ind < self.cells.len() { ... }, then the check of the last layer
Walk(cs, ind, count, layer, layer_count) ==
  IF ind < Len(cs)
  THEN LET cell == cs[ind + 1] IN
       IF cell.layer_id = layer
       THEN IF IndexNotConsecutive(cell, count)
            THEN WalkPanic(MsgNotConsecutive, -1)
            ELSE Walk(cs, ind + 1, count + 1, layer, layer_count)
       ELSE IF count = 0
            THEN WalkPanic(MsgNoCell, layer)
            ELSE IF ind = 0
                 THEN WalkPanic(MsgSubtractOverflow, -1)
                 ELSE Walk(cs, (ind - 1) + 1, 0, layer + 1, Append(layer_count, count))
  ELSE IF count = 0
       THEN WalkPanic(MsgNoCell, layer)
       ELSE Walked(Append(layer_count, count), layer)

\* ------------------------------------------------------------ projection
GatesOf(gates) == [tag |-> "gates", msg |-> "", at |-> -1, gates |-> gates]

GatesPanic(msg, at) == [tag |-> "panic", msg |-> msg, at |-> at, gates |-> <<>>]

\* a range check of the left operand alone
AddLeftOperandOut(l, r, below) == l >= below

\* line 73: if l >= layer_count[la-1] || r >= layer_count[la-1], of an Add cell
AddOperandsOut(l, r, below) == l >= below \/ r >= below

\* a range check that is off by one
MulOperandsBeyond(l, r, below) == l > below \/ r > below

\* line 79: the same check of a Mul cell
MulOperandsOut(l, r, below) == l >= below \/ r >= below

\* an Add gate with its operands exchanged
AddGateSwapped(l, r) == Gate("Add", r, l)

\* line 76: Gate::new(GateType::Add, [l, r])
AddGate(l, r) == Gate("Add", l, r)

\* a Mul cell emitted as an Add gate
MulGateAsAdd(l, r) == Gate("Add", l, r)

\* line 82: Gate::new(GateType::Mul, [l, r])
MulGate(l, r) == Gate("Mul", l, r)

RECURSIVE ProjectCells(_, _, _, _, _, _)
\* for j in layer_end - layer_count[la]..layer_end { match cells[j].gate_type ... }
ProjectCells(cs, layer_count, la, j, layer_end, acc) ==
  IF j >= layer_end THEN GatesOf(acc)
  ELSE LET g == cs[j + 1].gate_type IN
       CASE g.kind = "Witness" -> GatesPanic(MsgWitness, la)
         [] g.kind = "Add" ->
              IF AddOperandsOut(g.l, g.r, layer_count[(la - 1) + 1])
              THEN GatesPanic(MsgNotEnough, la - 1)
              ELSE ProjectCells(cs, layer_count, la, j + 1, layer_end,
                                Append(acc, AddGate(g.l, g.r)))
         [] g.kind = "Mul" ->
              IF MulOperandsOut(g.l, g.r, layer_count[(la - 1) + 1])
              THEN GatesPanic(MsgNotEnough, la - 1)
              ELSE ProjectCells(cs, layer_count, la, j + 1, layer_end,
                                Append(acc, MulGate(g.l, g.r)))

RECURSIVE ProjectLayers(_, _, _, _, _, _)
\* for i in 1usize..self.n_layer { let la = self.n_layer - i; ... }
ProjectLayers(cs, layer_count, nl, i, layer_end, layers) ==
  IF i >= nl THEN Circuit(layers, layer_count[1])
  ELSE LET la == nl - i IN
       IF la >= Len(layer_count) THEN Panic(MsgIndexOutOfBounds, -1)
       ELSE IF layer_count[la + 1] > layer_end THEN Panic(MsgSubtractOverflow, -1)
       ELSE LET got == ProjectCells(cs, layer_count, la, layer_end - layer_count[la + 1],
                                    layer_end, <<>>) IN
            IF got.tag = "panic" THEN Panic(got.msg, got.at)
            ELSE ProjectLayers(cs, layer_count, nl, i + 1, layer_end - layer_count[la + 1],
                               Append(layers, got.gates))

\* lines 59-89: the count check, then the projection
Finish(cs, layer_count, layer, nl, ni, no) ==
  IF layer_count[1] # ni \/ layer_count[layer + 1] # no
  THEN Panic(MsgWrongNumber, -1)
  ELSE ProjectLayers(cs, layer_count, nl, 1, Len(cs), <<>>)

\* CircuitBuilder::build_circuit on the builder {cells: v, n_layer: nl, n_input: ni, n_output: no}
BuildCircuit(v, nl, ni, no) ==
  LET cs == SortCells(v)
      w == Walk(cs, 0, 0, 0, <<>>)
  IN IF w.tag = "panic" THEN Panic(w.msg, w.at)
     ELSE Finish(cs, w.layer_count, w.layer, nl, ni, no)

\* ----------------------------------------------------------------- state
VARIABLES
  cells,      \* the vector of cells (the caller's, then self.cells)
  n_layer,    \* self.n_layer
  n_input,    \* self.n_input
  n_output,   \* self.n_output
  pc,         \* "input", "built" (builder constructed), "walk", "walked", "done"
  result,     \* what build_circuit returned or how it failed
  sorted,     \* the local cells of build_circuit, sorted
  layer_count,
  count,
  layer,
  ind,
  stalls      \* history: iterations of the walk since a cell was last consumed

vars == <<cells, n_layer, n_input, n_output, pc, result, sorted, layer_count, count,
          layer, ind, stalls>>

walkvars == <<sorted, layer_count, count, layer, ind, stalls>>

builder == <<cells, n_layer, n_input, n_output>>

\* an injective code of a gate type and of a cell, to enumerate vectors up to reordering
GateCode(g) ==
  IF g.kind = "Witness" THEN 0
  ELSE 1 + (IF g.kind = "Add" THEN 0 ELSE 1) * (MaxOperand + 1) * (MaxOperand + 1)
         + g.l * (MaxOperand + 1) + g.r

CellCode(c) ==
  (c.layer_id * (MaxIndex + 1) + c.index) * (2 * (MaxOperand + 1) * (MaxOperand + 1) + 1)
    + GateCode(c.gate_type)

\* vectors are enumerated up to reordering (C10 ranges over the reorderings): in
\* descending order, pushed from the output layer down as the callers of the
\* repository push them
Descending(v) == \A k \in 1..(Len(v) - 1) : CellCode(v[k]) >= CellCode(v[k + 1])

\* the cells whose operands are all 0
ZeroOperandCell == {c \in Cell : c.gate_type.l = 0 /\ c.gate_type.r = 0}

Fresh ==
  /\ n_layer = 0
  /\ n_input = 0
  /\ n_output = 0
  /\ pc = "input"
  /\ result = NoResult
  /\ sorted = <<>>
  /\ layer_count = <<>>
  /\ count = 0
  /\ layer = 0
  /\ ind = 0
  /\ stalls = 0

\* the caller's vector: at most MaxCells cells of any kind, or MaxCells + 1 cells
\* with operands 0 (room for three layers one of which holds two cells)
Init ==
  /\ \/ \E n \in 0..MaxCells : cells \in [1..n -> Cell]
     \/ cells \in [1..(MaxCells + 1) -> ZeroOperandCell]
  /\ Descending(cells)
  /\ Fresh

\* the walk reads layer_id and index only: vectors of at most MaxCells + 1 cells
\* with operands 0
WalkInit ==
  /\ \E n \in 0..(MaxCells + 1) : cells \in [1..n -> ZeroOperandCell]
  /\ Descending(cells)
  /\ Fresh

\* CircuitBuilder::new(cells, n_layer, n_input, n_output)
New(nl, ni, no) ==
  /\ pc = "input"
  /\ n_layer' = nl
  /\ n_input' = ni
  /\ n_output' = no
  /\ pc' = "built"
  /\ UNCHANGED <<cells, result, walkvars>>

\* build_circuit, the whole call
Build ==
  /\ pc = "built"
  /\ result' = BuildCircuit(cells, n_layer, n_input, n_output)
  /\ pc' = "done"
  /\ UNCHANGED <<builder, walkvars>>

Next ==
  \/ \E nl \in 0..(MaxLayerId + 1), ni \in 1..MaxDeclared, no \in 1..MaxDeclared : New(nl, ni, no)
  \/ Build

Spec == Init /\ [][Next]_vars

\* ------------------------------------------- build_circuit, step by step
\* lines 31-36: clone, sort, and the walk's locals
SortStep ==
  /\ pc = "built"
  /\ sorted' = SortCells(cells)
  /\ layer_count' = <<>>
  /\ count' = 0
  /\ layer' = 0
  /\ ind' = 0
  /\ stalls' = 0
  /\ pc' = "walk"
  /\ UNCHANGED <<builder, result>>

\* line 37, the loop's condition (self.cells and the sorted clone are equally long)
InLoop == pc = "walk" /\ ind < Len(cells)

\* lines 39-43: the cell is of the current layer and carries the next index
WalkConsume ==
  /\ InLoop
  /\ sorted[ind + 1].layer_id = layer
  /\ ~IndexNotConsecutive(sorted[ind + 1], count)
  /\ count' = count + 1
  /\ ind' = ind + 1
  /\ stalls' = 0
  /\ UNCHANGED <<builder, pc, result, sorted, layer_count, layer>>

\* lines 40-42: panic!("cell index is not consecutive")
WalkIndexPanic ==
  /\ InLoop
  /\ sorted[ind + 1].layer_id = layer
  /\ IndexNotConsecutive(sorted[ind + 1], count)
  /\ result' = Panic(MsgNotConsecutive, -1)
  /\ pc' = "done"
  /\ UNCHANGED <<builder, walkvars>>

\* lines 45-47: panic!("have no cell in layer_{}", layer)
WalkEmptyPanic ==
  /\ InLoop
  /\ sorted[ind + 1].layer_id # layer
  /\ count = 0
  /\ result' = Panic(MsgNoCell, layer)
  /\ pc' = "done"
  /\ UNCHANGED <<builder, walkvars>>

\* the guard of lines 48-53: the cell is of another layer and the current one has cells
CanAdvance == InLoop /\ sorted[ind + 1].layer_id # layer /\ count # 0

\* an advance that forgets count = 0
WalkAdvanceKeepsCount ==
  /\ InLoop
  /\ sorted[ind + 1].layer_id # layer
  /\ count # 0
  /\ layer_count' = Append(layer_count, count)
  /\ layer' = layer + 1
  /\ stalls' = stalls + 1
  /\ UNCHANGED <<builder, pc, result, sorted, count, ind>>

\* lines 48-53: close the layer and go on to the next without consuming the cell:
\* ind -= 1 then ind += 1.  At ind = 0 the subtraction overflows: a build with
\* overflow checks panics, one without wraps around and back to 0.
WalkAdvance ==
  /\ CanAdvance
  /\ \E checks \in (IF ind = 0 THEN BOOLEAN ELSE {FALSE}) :
       IF checks
       THEN /\ result' = Panic(MsgSubtractOverflow, -1)
            /\ pc' = "done"
            /\ UNCHANGED <<builder, walkvars>>
       ELSE /\ layer_count' = Append(layer_count, count)
            /\ count' = 0
            /\ layer' = layer + 1
            /\ ind' = ind
            /\ stalls' = stalls + 1
            /\ UNCHANGED <<builder, pc, result, sorted>>

\* lines 55-58: after the loop
WalkExit ==
  /\ pc = "walk"
  /\ ~(ind < Len(cells))
  /\ IF count = 0
     THEN /\ result' = Panic(MsgNoCell, layer)
          /\ pc' = "done"
          /\ UNCHANGED <<builder, walkvars>>
     ELSE /\ layer_count' = Append(layer_count, count)
          /\ pc' = "walked"
          /\ UNCHANGED <<builder, result, sorted, count, layer, ind, stalls>>

\* lines 59-89: the count check and the projection
FinishStep ==
  /\ pc = "walked"
  /\ result' = Finish(sorted, layer_count, layer, n_layer, n_input, n_output)
  /\ pc' = "done"
  /\ UNCHANGED <<builder, walkvars>>

WalkNext ==
  \/ \E nl \in 0..(MaxLayerId + 1), ni \in 1..MaxDeclared, no \in 1..MaxDeclared : New(nl, ni, no)
  \/ SortStep
  \/ WalkConsume
  \/ WalkIndexPanic
  \/ WalkEmptyPanic
  \/ WalkAdvance
  \/ WalkExit
  \/ FinishStep

\* build_circuit is sequential code with nothing to wait for: each step is taken
WalkSpec == WalkInit /\ [][WalkNext]_vars /\ WF_vars(WalkNext)

\* the step-by-step run and the operator BuildCircuit are the same function
StepwiseAgrees ==
  pc = "done" => result = BuildCircuit(cells, n_layer, n_input, n_output)

\* no subtraction of build_circuit overflows, in the walk or in the projection
NoOverflow == result.msg # MsgSubtractOverflow

\* ------------------------------------------------- vocabulary of the claims
Done == pc = "done"

Returned == Done /\ result.tag = "circuit"

Failed(msg) == Done /\ result.tag = "panic" /\ result.msg = msg

\* the positions of the cells of layer L in the vector v
CellsAt(v, L) == {k \in 1..Len(v) : v[k].layer_id = L}

\* the number of cells of layer L
CountAt(v, L) == Cardinality(CellsAt(v, L))

LayerIds(v) == {v[k].layer_id : k \in 1..Len(v)}

\* the largest layer id present (of a vector with a cell)
TopLayer(v) == CHOOSE L \in LayerIds(v) : \A M \in LayerIds(v) : M <= L

\* the number of populated layers
Populated(v) == Cardinality(LayerIds(v))

\* every layer id from 0 up to the largest present has a cell
NoGap(v) == v # <<>> /\ \A L \in 0..TopLayer(v) : CountAt(v, L) > 0

\* the indices of layer L are exactly 0, 1, .., count-1, each once
ConsecutiveAt(v, L) ==
  \A x \in 0..(CountAt(v, L) - 1) :
    Cardinality({k \in CellsAt(v, L) : v[k].index = x}) = 1

ConsecutiveIndices(v) == \A L \in LayerIds(v) : ConsecutiveAt(v, L)

\* a Witness cell above layer 0
WitnessAbove(v) == \E k \in 1..Len(v) : v[k].layer_id >= 1 /\ v[k].gate_type.kind = "Witness"

\* the layers L >= 1 holding an Add or Mul cell with an operand beyond layer L-1
OperandBeyond(v) ==
  {L \in LayerIds(v) \ {0} :
     \E k \in CellsAt(v, L) :
        /\ v[k].gate_type.kind # "Witness"
        /\ \/ v[k].gate_type.l >= CountAt(v, L - 1)
           \/ v[k].gate_type.r >= CountAt(v, L - 1)}

\* the gate a cell turns into: same kind, same operands
GateOfCell(c) == [kind |-> c.gate_type.kind, inputs |-> <<c.gate_type.l, c.gate_type.r>>]

\* the operands of the gates of circuit layer i (1-based) of the circuit C
OperandsOf(C, i) == UNION {{C.layers[i][p].inputs[1], C.layers[i][p].inputs[2]} : p \in 1..Len(C.layers[i])}

\* ----------------------------------------------------------------- C1
\* C1: whenever build_circuit returns a circuit, every gate operand of circuit
\* layer i is below the number of gates of circuit layer i+1, and every operand
\* of the last circuit layer is below the circuit's input count.
C1_OperandsInRange ==
  Returned =>
    \A i \in 1..Len(result.layers) :
      \A x \in OperandsOf(result, i) :
        x < (IF i < Len(result.layers) THEN Len(result.layers[i + 1]) ELSE result.num_inputs)

\* a returned circuit one of whose gates reads position 1 of the layer below
C1_Witness ==
  /\ Returned
  /\ Len(result.layers) >= 1
  /\ \E i \in 1..Len(result.layers) : 1 \in OperandsOf(result, i)

\* ----------------------------------------------------------------- C2
\* C2: whenever build_circuit returns a circuit, its input count is n_input and,
\* if it has a layer, its output layer (circuit layer 0) holds exactly n_output
\* gates; and a build that passes the walk and whose layer-0 count differs from
\* n_input or whose topmost layer's count differs from n_output fails with the
\* count mismatch error.
C2_DeclaredCounts ==
  /\ Returned =>
       /\ result.num_inputs = n_input
       /\ Len(result.layers) >= 1 => Len(result.layers[1]) = n_output
  /\ ( /\ Done
       /\ NoGap(cells)
       /\ ConsecutiveIndices(cells)
       /\ CountAt(cells, 0) # n_input \/ CountAt(cells, TopLayer(cells)) # n_output )
     => Failed(MsgWrongNumber)

\* ----------------------------------------------------------------- C3
\* C3: build_circuit fails with the empty-layer error, naming an empty layer,
\* whenever some layer id in 0..n_layer has no cell (stated for the vectors whose
\* populated layers carry consecutive indices, where no other check comes first).
C3_EmptyLayerFails ==
  ( /\ Done
    /\ ConsecutiveIndices(cells)
    /\ \E L \in 0..(n_layer - 1) : CountAt(cells, L) = 0 )
  => /\ Failed(MsgNoCell)
     /\ result.at \in 0..(n_layer - 1)
     /\ CountAt(cells, result.at) = 0

\* ----------------------------------------------------------------- C4
\* C4: build_circuit never returns a circuit when a Witness cell has a layer id
\* of 1 or more; when that is the only violation the failure is the
\* witness-outside-input-layer error naming the layer of such a cell.
C4_WitnessAboveFails ==
  (Done /\ WitnessAbove(cells)) =>
    /\ result.tag = "panic"
    /\ ( /\ NoGap(cells)
         /\ ConsecutiveIndices(cells)
         /\ CountAt(cells, 0) = n_input
         /\ CountAt(cells, TopLayer(cells)) = n_output
         /\ n_layer = Populated(cells)
         /\ OperandBeyond(cells) = {} )
       => /\ result.msg = MsgWitness
          /\ result.at >= 1
          /\ \E k \in CellsAt(cells, result.at) : cells[k].gate_type.kind = "Witness"

\* ----------------------------------------------------------------- C5
\* C5: if the indices of some layer are not exactly 0..count-1 and every layer id
\* up to the largest present has a cell, build_circuit fails with the
\* non-consecutive-index error, whatever n_layer, n_input and n_output are.
C5_NonConsecutiveFails ==
  (Done /\ NoGap(cells) /\ ~ConsecutiveIndices(cells)) =>
     /\ Failed(MsgNotConsecutive)
     /\ result.layers = <<>>

\* a build of a vector with a duplicated index in a layer, all layers populated
C5_Witness ==
  /\ Done
  /\ NoGap(cells)
  /\ \E k \in 1..Len(cells), m \in 1..Len(cells) :
       k # m /\ cells[k].layer_id = cells[m].layer_id /\ cells[k].index = cells[m].index
  /\ Failed(MsgNotConsecutive)

\* ----------------------------------------------------------------- C6
\* the case of C6: the walk and the count check pass, n_layer is the number of
\* populated layers, and some layer holds an operand beyond the layer below
C6_Precondition ==
  /\ Done
  /\ NoGap(cells)
  /\ ConsecutiveIndices(cells)
  /\ CountAt(cells, 0) = n_input
  /\ CountAt(cells, TopLayer(cells)) = n_output
  /\ n_layer = Populated(cells)
  /\ OperandBeyond(cells) # {}

\* C6: for a vector that passes the index, empty-layer and count checks and whose
\* n_layer is the number of populated layers, if an Add or Mul cell of a layer
\* L >= 1 has an operand >= the number of cells of layer L-1, no circuit is
\* returned; when that is the only violation the failure is the
\* operand-out-of-range error and it names L-1 for such a layer L.
C6_OperandBeyondFails ==
  C6_Precondition =>
    /\ result.tag = "panic"
    /\ ~WitnessAbove(cells) =>
         /\ result.msg = MsgNotEnough
         /\ result.at + 1 \in OperandBeyond(cells)

\* a build that fails for the right operand of a Mul cell alone
C6_Witness ==
  /\ C6_Precondition
  /\ ~WitnessAbove(cells)
  /\ Failed(MsgNotEnough)
  /\ \E k \in 1..Len(cells) :
       /\ cells[k].gate_type.kind = "Mul"
       /\ cells[k].layer_id = result.at + 1
       /\ cells[k].gate_type.l < CountAt(cells, result.at)
       /\ cells[k].gate_type.r >= CountAt(cells, result.at)

\* ----------------------------------------------------------------- C7
\* C7: when n_layer is the number of populated layers and build_circuit returns,
\* the circuit has n_layer-1 layers, circuit layer k is the cells of layer id
\* n_layer-1-k in ascending index order, each a gate of the cell's kind with its
\* operands unchanged, and the layer-0 cells contribute the input count only.
C7_Projection ==
  (Returned /\ n_layer = Populated(cells)) =>
    /\ Len(result.layers) = n_layer - 1
    /\ result.num_inputs = CountAt(cells, 0)
    /\ \A k \in 0..(n_layer - 2) :
         LET L == n_layer - 1 - k
             gates == result.layers[k + 1]
         IN /\ Len(gates) = CountAt(cells, L)
            /\ \A p \in 1..Len(gates) :
                 \E c \in CellsAt(cells, L) :
                    cells[c].index = p - 1 /\ gates[p] = GateOfCell(cells[c])

\* a returned circuit with a Mul gate of unequal operands
C7_Witness ==
  /\ Returned
  /\ n_layer = Populated(cells)
  /\ \E i \in 1..Len(result.layers) :
       \E q \in 1..Len(result.layers[i]) :
          /\ result.layers[i][q].kind = "Mul"
          /\ result.layers[i][q].inputs[1] # result.layers[i][q].inputs[2]

\* a returned circuit of two layers
C7_TwoLayers == Returned /\ n_layer = Populated(cells) /\ Len(result.layers) = 2

\* ----------------------------------------------------------------- C8
\* the cells of circuit layer k (1-based) of a circuit of m layers: layer id
\* m-(k-1), index the gate's position, the gate's kind and operands
CellsOfLayer(C, k) ==
  [p \in 1..Len(C.layers[k]) |->
     [index |-> p - 1, layer_id |-> Len(C.layers) - (k - 1),
      gate_type |-> [kind |-> C.layers[k][p].kind,
                     l |-> C.layers[k][p].inputs[1], r |-> C.layers[k][p].inputs[2]]]]

WitnessCells(n) == [p \in 1..n |-> [index |-> p - 1, layer_id |-> 0, gate_type |-> Witness]]

RECURSIVE CellsFrom(_, _)
CellsFrom(C, k) ==
  IF k > Len(C.layers) THEN WitnessCells(C.num_inputs)
  ELSE CellsOfLayer(C, k) \o CellsFrom(C, k + 1)

\* the flat cell list re-derived from a circuit
Rederive(C) == CellsFrom(C, 1)

\* the size of the output layer; a circuit without a layer outputs its inputs
OutputSize(C) == IF C.layers = <<>> THEN C.num_inputs ELSE Len(C.layers[1])

\* C8: for any circuit C build_circuit returns, build_circuit on the cell list
\* re-derived from C, with n_layer = m+1, n_input = C's input count and
\* n_output = the size of C's output layer, returns a circuit identical to C.
C8_RoundTrip ==
  Returned =>
    BuildCircuit(Rederive(result), Len(result.layers) + 1, result.num_inputs, OutputSize(result))
      = result

\* a returned circuit with a gate of unequal operands
C8_Witness ==
  /\ Returned
  /\ \E i \in 1..Len(result.layers) :
       \E p \in 1..Len(result.layers[i]) :
          result.layers[i][p].inputs[1] # result.layers[i][p].inputs[2]

\* a returned circuit of two layers built with n_layer below the populated layers
C8_Truncated == Returned /\ Len(result.layers) >= 1 /\ n_layer < Populated(cells)

\* ----------------------------------------------------------------- C9
\* C9: build_circuit terminates with a circuit or a failure: the walk's step that
\* goes on to the next layer without consuming the cell happens at most once in a
\* row, never at position 0, so the position never underflows, and the walk ends.
C9_Terminates ==
  /\ [](stalls <= 1)
  /\ [](CanAdvance => ind > 0)
  /\ [](result.msg # MsgSubtractOverflow)
  /\ <>(Done /\ result.tag \in {"circuit", "panic"})

\* the walk has just closed a second layer without consuming a cell
C9_Witness == pc = "walk" /\ stalls = 1 /\ layer >= 2

\* ---------------------------------------------------------------- C10
\* the vector v reordered by the permutation f of its positions
Reordered(v, f) == [k \in 1..Len(v) |-> v[f[k]]]

\* C10: the outcome does not depend on the order of the cells: every
\* permutation of the vector, with the same n_layer, n_input and n_output,
\* gives the same circuit or the same failure.
C10_OrderIndependent ==
  Done =>
    \A f \in Permutations(1..Len(cells)) :
      BuildCircuit(Reordered(cells, f), n_layer, n_input, n_output) = result

\* a circuit returned for a vector that was not in sorted order
C10_Witness ==
  /\ Returned
  /\ Len(cells) >= MaxCells
  /\ SortCells(cells) # cells

\* a build of a vector in which two cells share layer id and index
C10_Duplicates ==
  /\ Done
  /\ \E k \in 1..Len(cells), m \in 1..Len(cells) :
       /\ k # m
       /\ cells[k].layer_id = cells[m].layer_id
       /\ cells[k].index = cells[m].index
       /\ cells[k].gate_type # cells[m].gate_type

====
